---- MODULE Spec2Model ----
(***************************************************************************)
(* Signaling room (Durable Object, worker source) and the WebRTC hook      *)
(* (use-webrtc source) of voctis, as a state machine.                      *)
(*                                                                         *)
(* A WebSocket accepted by the room is a handle 1..MaxConn; its identity   *)
(* is the id stored in its attachment.  A JSON object is a record whose    *)
(* DOMAIN is the set of keys the object has; a key that is absent is       *)
(* absent from the DOMAIN.                                                 *)
(***************************************************************************)
EXTENDS Integers, Sequences, FiniteSets, TLC

\* ------------------------------------------------------------------ bounds
MaxConn == 3        \* WebSockets the room accepts in one behaviour
MaxSent == 2        \* messages the room sends in one behaviour driven by arbitrary frames
MaxRelay == 1       \* of these, the signal messages
MaxPC == 2          \* RTCPeerConnections one engine creates
MaxCand == 2        \* candidates one connection is sent by its peer
MaxRemote == 2      \* setRemoteDescription calls on one connection
MaxIce == 1         \* candidates one connection gathers locally
SysConn == 2       \* participants of the room when the clients are the engines
MaxMsg == 4        \* messages sent to the engine that is driven on its own

\* ------------------------------------------------------- values and inputs
IdPool == <<"u1", "u2", "u3", "u4", "u5">>
Ids == {IdPool[i] : i \in 1..MaxConn}
Stranger == "u0"    \* an identity the room never assigns
Handles == 1..MaxConn

EmptyObject == [k \in {} |-> ""]

Payloads == {[type |-> "offer", sdp |-> "v=0"]}

\* frames a client can put on the wire: a binary frame, text that is not JSON,
\* the JSON literal null, and JSON objects with and without each of the keys
\* type, to and payload; a signal to a socket's id also carries a from key the
\* client made up
FirstId == IdPool[1]
JsonObjects ==
    {EmptyObject, [type |-> "ready"], [type |-> "bogus"], [type |-> "signal", to |-> ""],
     [type |-> "signal", to |-> FirstId], [to |-> FirstId]}
        \cup {[type |-> "signal", payload |-> p] : p \in Payloads}
        \cup {[type |-> "signal", to |-> Stranger, payload |-> p] : p \in Payloads}
        \cup {[type |-> "signal", to |-> d, payload |-> p, from |-> d] : d \in Ids, p \in Payloads}
        \cup {[type |-> "bogus", to |-> FirstId, payload |-> p] : p \in Payloads}
ClientFrames ==
    {[binary |-> TRUE], [text |-> "garbage"], [text |-> "null"]}
        \cup {[text |-> "json", data |-> o] : o \in JsonObjects}

VARIABLES
    accepted,       \* number of WebSockets the room has accepted so far
    sockets,        \* this.ctx.getWebSockets(): the accepted, not yet closed handles, in accept order
    attachment,     \* handle -> id of its serialized attachment ("" before accept)
    transport,      \* handle -> "none" | "open" | "errored" | "closed" (runtime's view)
    sent,           \* handle -> the messages ws.send was called with, in order
    last,           \* the event processed last
    wire,           \* handle -> the frames its client passed to ws.send, in order
    taken,          \* handle -> how many frames of wire the room has been given
    rd,             \* handle -> how many messages of sent the client's onmessage has been given
    myId,           \* engine -> myIdRef.current
    heap,           \* engine -> the PeerState objects it created, in creation order
    peersRef,       \* engine -> peersRef.current: peer id -> index in heap, 0 for no entry
    tasks,          \* engine -> the handleMessage calls suspended at an await
    roster,         \* engine -> data.peers of the welcome it has handled (history)
    gone            \* engine -> the peer ids it has handled a peer-left for (history)

roomVars == <<accepted, sockets, attachment, transport, sent>>
linkVars == <<wire, taken, rd>>
engineVars == <<myId, heap, peersRef, tasks, roster, gone>>
vars == <<accepted, sockets, attachment, transport, sent, last,
          wire, taken, rd, myId, heap, peersRef, tasks, roster, gone>>

\* ------------------------------------------------------------ Room Registry

\* private send(ws, message): ws.send(JSON.stringify(message)); the client
\* parses the text back to the same object (the wire value is the record)
send(out, ws, message) == [out EXCEPT ![ws] = Append(@, message)]

\* the handles of a list of sockets
Range(list) == {list[i] : i \in 1..Len(list)}

\* what the caps MaxSent and MaxRelay count in the logs s
RECURSIVE totalSent(_, _)
totalSent(s, n) == IF n = 0 THEN 0 ELSE Len(s[n]) + totalSent(s, n - 1)
signalsSent(s) ==
    Cardinality({<<h, i>> \in Handles \X (1..MaxSent) : i <= Len(s[h]) /\ s[h][i].type = "signal"})
withinCaps(s) == totalSent(s, MaxConn) <= MaxSent /\ signalsSent(s) <= MaxRelay

\* typeof message !== 'string'
isString(message) == "text" \in DOMAIN message

\* JSON.parse(message) throws
parseThrows(message) == message.text = "garbage"

\* mutant: the ready loop does not skip the socket that sent ready
readySkipsNone(peer, ws) == FALSE

\* `if (peer === ws) continue` of the ready loop
readySkips(peer, ws) == peer = ws

\* mutant: the close loop does not skip the socket that closed
closeSkipsNone(peer, ws) == FALSE

\* `if (peer === ws) continue` of the close loop
closeSkips(peer, ws) == peer = ws

\* the for loop of the ready branch: collects peerIds and sends peer-joined
RECURSIVE readyLoop(_, _, _, _, _)
readyLoop(list, ws, from, peerIds, out) ==
    IF list = <<>> THEN [peerIds |-> peerIds, out |-> out]
    ELSE LET peer == Head(list) IN
         IF readySkips(peer, ws) THEN readyLoop(Tail(list), ws, from, peerIds, out)
         ELSE readyLoop(Tail(list), ws, from, Append(peerIds, attachment[peer]),
                        send(out, peer, [type |-> "peer-joined", peerId |-> from]))

\* the ready branch: the loop, then the welcome to ws
readyBranch(ws, from) ==
    LET r == readyLoop(sockets, ws, from, <<>>, sent) IN
    send(r.out, ws, [type |-> "welcome", id |-> from, peers |-> r.peerIds])

\* mutant: the relayed signal takes its from field from the message content
signalMessageTrusting(from, data) ==
    LET f == IF "from" \in DOMAIN data THEN data.from ELSE from IN
    IF "payload" \in DOMAIN data
    THEN [type |-> "signal", from |-> f, payload |-> data.payload]
    ELSE [type |-> "signal", from |-> f]

\* { type: 'signal', from, payload: data.payload }: JSON.stringify leaves out a
\* payload that is undefined
signalMessage(from, data) ==
    IF "payload" \in DOMAIN data
    THEN [type |-> "signal", from |-> from, payload |-> data.payload]
    ELSE [type |-> "signal", from |-> from]

\* attachment.id === data.to
isTarget(peer, data) == attachment[peer] = data.to

\* the relay loop: the first socket whose id is data.to is sent the signal
RECURSIVE relayLoop(_, _, _, _)
relayLoop(list, data, from, out) ==
    IF list = <<>> THEN out
    ELSE IF isTarget(Head(list), data)
         THEN send(out, Head(list), signalMessage(from, data))
         ELSE relayLoop(Tail(list), data, from, out)

\* !data.to
noDestination(data) == "to" \notin DOMAIN data \/ data.to = ""

\* data.type === 'ready'
isReady(data) == "type" \in DOMAIN data /\ data.type = "ready"

\* the messages webSocketMessage sends, as the new value of sent
messageEffect(ws, message) ==
    IF ~isString(message) THEN sent
    ELSE IF parseThrows(message) THEN sent
    ELSE IF message.text = "null" THEN sent     \* data.type throws on null
    ELSE LET data == message.data
             from == attachment[ws]
         IN  IF isReady(data) THEN readyBranch(ws, from)
             ELSE IF noDestination(data) THEN sent
             ELSE relayLoop(sockets, data, from, sent)

\* crypto.randomUUID(): an identity no socket was given before.  Identities are
\* only ever compared for equality, so the fresh value is taken in pool order.
randomUUID == IdPool[accepted + 1]

\* SignalingRoom.fetch
fetch ==
    \E upgrade \in BOOLEAN :
        IF ~upgrade
        THEN /\ last' = [op |-> "fetch", status |-> 426]
             /\ UNCHANGED <<accepted, sockets, attachment, transport, sent>>
        ELSE /\ accepted < MaxConn
             /\ LET server == accepted + 1
                     id == randomUUID
                 IN
                 /\ accepted' = server
                 /\ sockets' = Append(sockets, server)
                 /\ attachment' = [attachment EXCEPT ![server] = id]
                 /\ transport' = [transport EXCEPT ![server] = "open"]
                 /\ last' = [op |-> "fetch", status |-> 101, ws |-> server]
                 /\ UNCHANGED sent

\* SignalingRoom.webSocketMessage, for a frame the runtime delivers on ws
webSocketMessage(ws, message) ==
    /\ ws \in Range(sockets)
    /\ transport[ws] = "open"
    /\ sent' = messageEffect(ws, message)
    /\ last' = [op |-> "message", ws |-> ws, message |-> message]
    /\ UNCHANGED <<accepted, sockets, attachment, transport>>

\* the for loop of webSocketClose
RECURSIVE closeLoop(_, _, _)
closeLoop(list, ws, out) ==
    IF list = <<>> THEN out
    ELSE IF closeSkips(Head(list), ws) THEN closeLoop(Tail(list), ws, out)
         ELSE closeLoop(Tail(list), ws,
                        send(out, Head(list), [type |-> "peer-left", peerId |-> attachment[ws]]))

\* mutant: a closed socket stays in the list getWebSockets() returns
wsCloseKeeps(ws) == sockets

\* ws.close(): the socket is disconnected and leaves getWebSockets()
wsClose(ws) == SelectSeq(sockets, LAMBDA peer : peer # ws)

\* the body of SignalingRoom.webSocketClose
closeBody(ws) ==
    /\ sent' = closeLoop(sockets, ws, sent)
    /\ sockets' = wsClose(ws)
    /\ UNCHANGED <<accepted, attachment>>

\* SignalingRoom.webSocketClose: the runtime reports the close of ws, also
\* after it reported an error for it
webSocketClose(ws) ==
    /\ transport[ws] \in {"open", "errored"}
    /\ closeBody(ws)
    /\ transport' = [transport EXCEPT ![ws] = "closed"]
    /\ last' = [op |-> "close", ws |-> ws]

\* SignalingRoom.webSocketError: await this.webSocketClose(ws)
webSocketError(ws) ==
    /\ transport[ws] = "open"
    /\ closeBody(ws)
    /\ transport' = [transport EXCEPT ![ws] = "errored"]
    /\ last' = [op |-> "error", ws |-> ws]

\* the room driven by arbitrary clients: any frame on any open socket, a close
\* or an error of any socket
Receive ==
    \E ws \in Handles, message \in ClientFrames :
        /\ webSocketMessage(ws, message)
        /\ withinCaps(sent')
        /\ UNCHANGED <<linkVars, engineVars>>
Close ==
    \E ws \in Handles :
        webSocketClose(ws) /\ withinCaps(sent') /\ UNCHANGED <<linkVars, engineVars>>
Error ==
    \E ws \in Handles :
        webSocketError(ws) /\ withinCaps(sent') /\ UNCHANGED <<linkVars, engineVars>>
Connect == fetch /\ UNCHANGED <<linkVars, engineVars>>

Init ==
    /\ accepted = 0
    /\ sockets = <<>>
    /\ attachment = [h \in Handles |-> ""]
    /\ transport = [h \in Handles |-> "none"]
    /\ sent = [h \in Handles |-> <<>>]
    /\ last = [op |-> "init"]
    /\ wire = [h \in Handles |-> <<>>]
    /\ taken = [h \in Handles |-> 0]
    /\ rd = [h \in Handles |-> 0]
    /\ myId = [h \in Handles |-> ""]
    /\ heap = [h \in Handles |-> <<>>]
    /\ peersRef = [h \in Handles |-> [u \in Ids |-> 0]]
    /\ tasks = [h \in Handles |-> <<>>]
    /\ roster = [h \in Handles |-> <<>>]
    /\ gone = [h \in Handles |-> {}]

Next == Connect \/ Receive \/ Close \/ Error

Spec == Init /\ [][Next]_vars

\* ------------------------------------------------------- Negotiation Engine
\* (useWebRTC).  An await suspends the handleMessage call; it is resumed when
\* the awaited RTCPeerConnection operation completes.  A PeerState is an object
\* of the heap: a suspended call keeps its reference when peersRef drops it.

\* createPeerConnection's `state`, plus what the RTCPeerConnection has been
\* asked to do: local (type of the local description), remote (types of the
\* descriptions applied), added (addIceCandidate calls), closes (close calls),
\* gathered (candidates it produced); role and buffered are history
newState(peerId, role) ==
    [peerId |-> peerId, candidateBuffer |-> <<>>, remoteDescriptionSet |-> FALSE,
     local |-> "", remote |-> <<>>, added |-> <<>>, closes |-> 0, gathered |-> 0,
     role |-> role, buffered |-> <<>>]

\* a suspended call: the await it is at, the PeerState c it holds, the peers
\* of the welcome still to do, the array a flush iterates over and its
\* position, and what follows the flush
task(at, c, rest, items, i, then) ==
    [at |-> at, c |-> c, rest |-> rest, items |-> items, i |-> i, then |-> then]

\* an engine's heap, map, suspended calls and sent frames during one step
local(h, p, t, w) == [heap |-> h, peers |-> p, tasks |-> t, wire |-> w]

\* sendSignal: wsRef.current?.send(JSON.stringify({ type: 'signal', to, payload }))
sendSignal(w, to, payload) ==
    Append(w, [text |-> "json", data |-> [type |-> "signal", to |-> to, payload |-> payload]])

\* localDescription!.toJSON()
descriptionJSON(type) == [type |-> type, sdp |-> "v=0"]

\* event.candidate.toJSON() of the n-th candidate of connection c
candidateJSON(c, n) == [candidate |-> <<c, n>>]

\* createPeerConnection(peerId): a new PeerState, peersRef.current.set(peerId, state)
createPeerConnection(s, peerId, role) ==
    [s EXCEPT !.heap = Append(@, newState(peerId, role)),
              !.peers = [@ EXCEPT ![peerId] = Len(s.heap) + 1]]

\* removePeer that drops the session without closing its connection
removePeerOpen(s, peerId) == [s EXCEPT !.peers = [@ EXCEPT ![peerId] = 0]]

\* removePeer that closes the connection and leaves the session in the map
removePeerKeeps(s, peerId) ==
    LET c == s.peers[peerId] IN
    IF c # 0 THEN [s EXCEPT !.heap = [@ EXCEPT ![c].closes = @ + 1]] ELSE s

\* removePeer(peerId)
removePeer(s, peerId) ==
    LET c == s.peers[peerId] IN
    IF c # 0
    THEN [s EXCEPT !.heap = [@ EXCEPT ![c].closes = @ + 1],
                   !.peers = [@ EXCEPT ![peerId] = 0]]
    ELSE s

\* state.connection.addIceCandidate(candidate) is called
addIceCandidate(s, c, candidate, via) ==
    [s EXCEPT !.heap = [@ EXCEPT ![c].added = Append(@, [candidate |-> candidate, via |-> via])]]

\* a call suspends at an await
suspend(s, t) == [s EXCEPT !.tasks = Append(@, t)]

\* what follows `await flushCandidates(state)`: createAnswer in the offer
\* branch, the end of the handler in the answer branch
afterFlush(s, c, then) ==
    IF then = "createAnswer" THEN suspend(s, task("createAnswer", c, <<>>, <<>>, 0, "")) ELSE s

\* `state.candidateBuffer = []` after the loop of flushCandidates
clearBuffer(s, c) == [s EXCEPT !.heap = [@ EXCEPT ![c].candidateBuffer = <<>>]]

\* flushCandidates from position i of the array it iterates: the next
\* addIceCandidate and its await, or the end of the loop
flushFrom(s, c, items, i, then) ==
    IF i < Len(items)
    THEN suspend(addIceCandidate(s, c, items[i + 1], "flush"),
                 task("flush", c, <<>>, items, i + 1, then))
    ELSE afterFlush(clearBuffer(s, c), c, then)

\* after `await setRemoteDescription`: remoteDescriptionSet = true, then
\* flushCandidates(state) over the array state.candidateBuffer holds now
remoteDescriptionApplied(s, c, type, then) ==
    LET s1 == [s EXCEPT !.heap = [@ EXCEPT ![c].remote = Append(@, type),
                                           ![c].remoteDescriptionSet = TRUE]]
    IN  flushFrom(s1, c, s1.heap[c].candidateBuffer, 0, then)

\* one round of the welcome loop up to its first await: createPeerConnection
\* and the call of createOffer; after the last peer the handler ends
welcomeLoop(s, peers) ==
    IF peers = <<>> THEN s
    ELSE LET s1 == createPeerConnection(s, Head(peers), "offerer") IN
         suspend(s1, task("createOffer", Len(s1.heap), Tail(peers), <<>>, 0, ""))

\* setRemoteDescription calls made on connection c, completed or pending
remoteCalls(s, c) ==
    Len(s.heap[c].remote)
        + Cardinality({k \in 1..Len(s.tasks) :
                          s.tasks[k].c = c /\ s.tasks[k].at \in {"setRemoteOffer", "setRemoteAnswer"}})

\* candidates connection c was sent by its peer
candidatesReceived(s, c) ==
    Len(s.heap[c].buffered)
        + Cardinality({k \in 1..Len(s.heap[c].added) : s.heap[c].added[k].via = "direct"})

\* a candidate branch that takes the remote description for applied
remoteDescriptionAssumed(state) == TRUE

\* if (state.remoteDescriptionSet) of the candidate branch
remoteDescriptionIsSet(state) == state.remoteDescriptionSet

\* the signal branch of handleMessage up to its first await
signalBranch(s, from, payload) ==
    IF "sdp" \in DOMAIN payload
    THEN IF payload.type = "offer"
         THEN LET s1 == createPeerConnection(s, from, "answerer") IN
              suspend(s1, task("setRemoteOffer", Len(s1.heap), <<>>, <<>>, 0, ""))
         ELSE IF payload.type = "answer"
         THEN IF s.peers[from] # 0
              THEN suspend(s, task("setRemoteAnswer", s.peers[from], <<>>, <<>>, 0, ""))
              ELSE s
         ELSE s
    ELSE IF "candidate" \in DOMAIN payload
    THEN LET c == s.peers[from] IN
         IF c # 0
         THEN IF remoteDescriptionIsSet(s.heap[c])
              THEN suspend(addIceCandidate(s, c, payload, "direct"),
                           task("addIceCandidate", c, <<>>, <<>>, 0, ""))
              ELSE [s EXCEPT !.heap = [@ EXCEPT ![c].candidateBuffer = Append(@, payload),
                                                ![c].buffered = Append(@, payload)]]
         ELSE s
    ELSE s

\* a peer-joined case that connects to the newcomer
peerJoinedConnects(s, peerId) == createPeerConnection(s, peerId, "answerer")

\* case 'peer-joined': nothing is done, the newcomer's offer is awaited
peerJoined(s, peerId) == s

\* handleMessage(event) up to its first await, for the parsed message data
messageStep(s, data) ==
    IF data.type = "welcome" THEN welcomeLoop(s, data.peers)
    ELSE IF data.type = "peer-joined" THEN peerJoined(s, data.peerId)
    ELSE IF data.type = "signal"
         THEN IF "payload" \in DOMAIN data
              THEN signalBranch(s, data.from, data.payload)
              ELSE s                                \* `'sdp' in undefined` throws
    ELSE IF data.type = "peer-left" THEN removePeer(s, data.peerId)
    ELSE s

\* the continuation of the suspended call t when its await completes
resumeStep(s, t) ==
    LET c == t.c
        peerId == s.heap[c].peerId
    IN
    IF t.at = "createOffer"
    THEN suspend(s, task("setLocalOffer", c, t.rest, <<>>, 0, ""))
    ELSE IF t.at = "setLocalOffer"
    THEN LET s1 == [s EXCEPT !.heap = [@ EXCEPT ![c].local = "offer"],
                             !.wire = sendSignal(@, peerId, descriptionJSON("offer"))]
         IN  welcomeLoop(s1, t.rest)
    ELSE IF t.at = "setRemoteOffer"
    THEN remoteDescriptionApplied(s, c, "offer", "createAnswer")
    ELSE IF t.at = "setRemoteAnswer"
    THEN remoteDescriptionApplied(s, c, "answer", "done")
    ELSE IF t.at = "flush"
    THEN flushFrom(s, c, t.items, t.i, t.then)
    ELSE IF t.at = "createAnswer"
    THEN suspend(s, task("setLocalAnswer", c, <<>>, <<>>, 0, ""))
    ELSE IF t.at = "setLocalAnswer"
    THEN [s EXCEPT !.heap = [@ EXCEPT ![c].local = "answer"],
                   !.wire = sendSignal(@, peerId, descriptionJSON("answer"))]
    ELSE s                                          \* addIceCandidate: the branch ends

\* the bounds of the model on what one step may leave behind
withinEngineCaps(s) ==
    /\ Len(s.heap) <= MaxPC
    /\ \A c \in 1..Len(s.heap) :
        remoteCalls(s, c) <= MaxRemote /\ candidatesReceived(s, c) <= MaxCand

engineOf(e) == local(heap[e], peersRef[e], tasks[e], wire[e])

install(e, s) ==
    /\ withinEngineCaps(s)
    /\ heap' = [heap EXCEPT ![e] = s.heap]
    /\ peersRef' = [peersRef EXCEPT ![e] = s.peers]
    /\ tasks' = [tasks EXCEPT ![e] = s.tasks]
    /\ wire' = [wire EXCEPT ![e] = s.wire]

\* ws.onmessage = handleMessage: the call for one message, up to its first await
handleMessage(e, data) ==
    /\ install(e, messageStep(engineOf(e), data))
    /\ myId' = IF data.type = "welcome" THEN [myId EXCEPT ![e] = data.id] ELSE myId
    /\ roster' = IF data.type = "welcome" THEN [roster EXCEPT ![e] = data.peers] ELSE roster
    /\ gone' = IF data.type = "peer-left" THEN [gone EXCEPT ![e] = @ \cup {data.peerId}] ELSE gone
    /\ last' = [op |-> "onmessage", e |-> e, data |-> data]

\* the operations of one RTCPeerConnection complete in the order they were
\* called: the k-th suspended call can resume when no earlier one waits on
\* the same connection
canResume(e, k) == \A j \in 1..(k - 1) : tasks[e][j].c # tasks[e][k].c

\* tasks[e] without its k-th element
without(list, k) == SubSeq(list, 1, k - 1) \o SubSeq(list, k + 1, Len(list))

\* the awaited operation of the k-th suspended call of e completes
resume(e, k) ==
    /\ k \in 1..Len(tasks[e])
    /\ canResume(e, k)
    /\ install(e, resumeStep(local(heap[e], peersRef[e], without(tasks[e], k), wire[e]),
                             tasks[e][k]))
    /\ last' = [op |-> "resume", e |-> e, at |-> tasks[e][k].at, c |-> tasks[e][k].c]
    /\ UNCHANGED <<myId, roster, gone>>

\* the awaited operation of the k-th suspended call of e rejects: the call
\* throws out of handleMessage and nothing further of it runs
reject(e, k) ==
    /\ k \in 1..Len(tasks[e])
    /\ canResume(e, k)
    /\ tasks' = [tasks EXCEPT ![e] = without(@, k)]
    /\ last' = [op |-> "reject", e |-> e, at |-> tasks[e][k].at, c |-> tasks[e][k].c]
    /\ UNCHANGED <<myId, heap, peersRef, wire, roster, gone>>

\* connection.onicecandidate: the connection, once it has a local
\* description, produces a candidate
onicecandidate(e, c) ==
    /\ c \in 1..Len(heap[e])
    /\ heap[e][c].local # ""
    /\ heap[e][c].closes = 0
    /\ heap[e][c].gathered < MaxIce
    /\ heap' = [heap EXCEPT ![e][c].gathered = @ + 1]
    /\ wire' = [wire EXCEPT ![e] =
                    sendSignal(@, heap[e][c].peerId, candidateJSON(c, heap[e][c].gathered + 1))]
    /\ last' = [op |-> "onicecandidate", e |-> e, c |-> c]
    /\ UNCHANGED <<myId, peersRef, tasks, roster, gone>>

\* connection.onconnectionstatechange with connectionState 'disconnected' or
\* 'failed': removePeer(peerId) for the peer id the connection was created for
onconnectionstatechange(e, c) ==
    /\ c \in 1..Len(heap[e])
    /\ heap[e][c].closes = 0
    /\ install(e, removePeer(engineOf(e), heap[e][c].peerId))
    /\ last' = [op |-> "onconnectionstatechange", e |-> e, c |-> c]
    /\ UNCHANGED <<myId, roster, gone>>

\* ---------------------------------------- one engine under any message order
\* the engine of socket 1 is sent, in any order, what the room can send it:
\* one welcome, peer-joined and peer-left for any peer, and signals whose
\* payloads are whatever its peers chose to send

Self == 1
PeerIds == Ids \ {IdPool[Self]}
PeerLists ==
    {<<>>} \cup {<<u>> : u \in PeerIds}
        \cup {l \in PeerIds \X PeerIds : l[1] # l[2]}

\* the peers the room can still name as the sender of a signal or in a
\* welcome: a socket that closed is off getWebSockets() and its id is not
\* given out again
Present == PeerIds \ gone[Self]

\* the next candidate of peer `from`
nextCandidate(from) ==
    LET c == peersRef[Self][from] IN
    [candidate |-> <<0, IF c = 0 THEN 1 ELSE candidatesReceived(engineOf(Self), c) + 1>>]

ServerMessages ==
    (IF myId[Self] = ""
     THEN {[type |-> "welcome", id |-> IdPool[Self], peers |-> l] :
                l \in {p \in PeerLists : Range(p) \subseteq Present}}
     ELSE {})
        \cup {[type |-> "peer-joined", peerId |-> u] : u \in PeerIds}
        \cup {[type |-> "peer-left", peerId |-> u] : u \in PeerIds}
        \cup {[type |-> "signal", from |-> u, payload |-> descriptionJSON(t)] :
                u \in Present, t \in {"offer", "answer"}}
        \cup {[type |-> "signal", from |-> u, payload |-> nextCandidate(u)] : u \in Present}
        \cup {[type |-> "signal", from |-> u] : u \in Present}

\* rd[Self] counts the messages the engine has been sent
Deliver ==
    \E data \in ServerMessages :
        /\ rd[Self] < MaxMsg
        /\ handleMessage(Self, data)
        /\ rd' = [rd EXCEPT ![Self] = @ + 1]
        /\ UNCHANGED <<roomVars, taken>>
Resume ==
    \E k \in 1..Len(tasks[Self]) :
        resume(Self, k) /\ UNCHANGED <<roomVars, taken, rd>>
Reject ==
    \E k \in 1..Len(tasks[Self]) :
        reject(Self, k) /\ UNCHANGED <<roomVars, taken, rd>>
Gather ==
    \E c \in 1..Len(heap[Self]) :
        onicecandidate(Self, c) /\ UNCHANGED <<roomVars, taken, rd>>
Fail ==
    \E c \in 1..Len(heap[Self]) :
        onconnectionstatechange(Self, c) /\ UNCHANGED <<roomVars, taken, rd>>

NextEngine == Deliver \/ Resume \/ Reject \/ Gather \/ Fail

SpecEngine == Init /\ [][NextEngine]_vars

\* --------------------------------------------- the room with engines as clients
\* each participant is an engine whose WebSocket is a socket of the room:
\* what the engine sends (wire) reaches webSocketMessage in order, what the
\* room sends it (sent) reaches handleMessage in order

\* the page's WebSocket is connected and has not been closed
connected(e) == transport[e] = "open"

\* ws.onopen has run: ws.send(JSON.stringify({ type: 'ready' })) is the
\* first frame the engine sends
opened(e) == wire[e] # <<>>

\* new WebSocket(url): the room accepts the upgrade request
Join ==
    /\ accepted < SysConn
    /\ fetch
    /\ last'.status = 101
    /\ UNCHANGED <<linkVars, engineVars>>

\* ws.onopen
Open ==
    \E e \in Handles :
        /\ connected(e)
        /\ ~opened(e)
        /\ wire' = [wire EXCEPT ![e] = <<[text |-> "json", data |-> [type |-> "ready"]]>>]
        /\ last' = [op |-> "onopen", e |-> e]
        /\ UNCHANGED <<roomVars, taken, rd, engineVars>>

\* the next frame the engine sent reaches the room
Relay ==
    \E e \in Handles :
        /\ taken[e] < Len(wire[e])
        /\ webSocketMessage(e, wire[e][taken[e] + 1])
        /\ taken' = [taken EXCEPT ![e] = @ + 1]
        /\ UNCHANGED <<wire, rd, engineVars>>

\* the next message the room sent reaches the engine: ws.onmessage
Hear ==
    \E e \in Handles :
        /\ connected(e)
        /\ opened(e)
        /\ rd[e] < Len(sent[e])
        /\ handleMessage(e, sent[e][rd[e] + 1])
        /\ rd' = [rd EXCEPT ![e] = @ + 1]
        /\ UNCHANGED <<roomVars, taken>>

\* an awaited operation of an engine completes
Settle ==
    \E e \in Handles : \E k \in 1..Len(tasks[e]) :
        /\ connected(e)
        /\ resume(e, k)
        /\ UNCHANGED <<roomVars, taken, rd>>

\* a connection of an engine produces a candidate
Trickle ==
    \E e \in Handles : \E c \in 1..Len(heap[e]) :
        /\ connected(e)
        /\ onicecandidate(e, c)
        /\ UNCHANGED <<roomVars, taken, rd>>

\* the page goes away: its WebSocket closes and the room is told
Leave ==
    \E e \in Handles :
        /\ connected(e)
        /\ webSocketClose(e)
        /\ UNCHANGED <<linkVars, engineVars>>

NextSys == Join \/ Open \/ Relay \/ Hear \/ Settle \/ Trickle \/ Leave

SpecSys == Init /\ [][NextSys]_vars

\* ------------------------------------------------ a pair that stays in the room
\* the room with engines as clients when nobody leaves and nothing fails:
\* every connection is made, every frame and message is delivered in order
\* and every awaited operation completes

NextPair == Join \/ Open \/ Relay \/ Hear \/ Settle \/ Trickle

\* every step uses up a connection still to make, a frame or message still
\* to deliver, a pending operation or a candidate still to gather, so no
\* step can be taken for ever at the expense of another: weak fairness of
\* the next-state action makes every enabled step happen eventually
SpecPair ==
    /\ Init
    /\ [][NextPair]_vars
    /\ WF_vars(NextPair)

\* ------------------------------------------------------------------ claims

\* the messages a step sends to socket h
New(h) == SubSeq(sent'[h], Len(sent[h]) + 1, Len(sent'[h]))

\* the participants of the room: the sockets whose transport is open
Members == {h \in Handles : transport[h] = "open"}

\* socket h has been sent a welcome: it reached Ready
Welcomed(h) == \E i \in 1..Len(sent[h]) : sent[h][i].type = "welcome"

\* how often message m is in the log of socket h
Times(h, m) == Cardinality({i \in 1..Len(sent[h]) : sent[h][i] = m})

\* event l is the receipt of a frame / of a frame holding a JSON object
isFrame(l) == l.op = "message"
isObject(l) == isFrame(l) /\ "text" \in DOMAIN l.message /\ l.message.text = "json"
tagOf(d) == IF "type" \in DOMAIN d THEN d.type ELSE ""

\* a frame that is unparseable, lacks a required field or has an unknown tag
ProtocolError(message) ==
    \/ "text" \notin DOMAIN message
    \/ message.text \in {"garbage", "null"}
    \/ /\ message.text = "json"
       /\ LET d == message.data IN
          \/ tagOf(d) \notin {"ready", "signal"}
          \/ tagOf(d) = "signal" /\ ("to" \notin DOMAIN d \/ "payload" \notin DOMAIN d)

\* a signal with no destination, or whose destination is no current participant
DeadLetter(d) ==
    /\ tagOf(d) = "signal"
    /\ "to" \notin DOMAIN d \/ d.to \notin {attachment[h] : h \in Members}

\* the step leaves the room's membership and every transport as they were
RoomUnchanged ==
    /\ sockets' = sockets
    /\ transport' = transport
    /\ attachment' = attachment
    /\ accepted' = accepted

\* C2: whatever close and error events fire for a participant P, every other
\* participant is sent peer-left{peerId: P} at most once.
C2_DepartureIdempotence ==
    \A p, q \in Handles :
        (p # q /\ transport[p] # "none") =>
            Times(q, [type |-> "peer-left", peerId |-> attachment[p]]) <= 1

\* C4: while nobody has left and nobody has sent ready twice, the welcome sent
\* to a participant that becomes ready lists, as a set, exactly the
\* participants that became ready before it.
C4_MembershipConsistency ==
    [][\A ws \in Handles :
          ( /\ \A h \in Handles : transport[h] \in {"none", "open"}
            /\ \A h \in Handles :
                Cardinality({i \in 1..Len(sent[h]) : sent[h][i].type = "welcome"}) <= 1
            /\ isObject(last') /\ last'.ws = ws
            /\ tagOf(last'.message.data) = "ready"
            /\ ~Welcomed(ws) )
          => /\ Len(New(ws)) = 1
             /\ New(ws)[1].type = "welcome"
             /\ Range(New(ws)[1].peers) = {attachment[h] : h \in {k \in Handles : Welcomed(k)}}
      ]_vars

\* C5: a signal from S whose destination is the identity of a current
\* participant X makes the room send exactly one message, to X only: a signal
\* with the received payload and with from = the identity assigned to S.
C5_RelayExclusivity ==
    [][\A s, x \in Handles :
          ( /\ isObject(last') /\ last'.ws = s
            /\ tagOf(last'.message.data) = "signal"
            /\ "to" \in DOMAIN last'.message.data
            /\ x \in Members
            /\ last'.message.data.to = attachment[x] )
          => LET d == last'.message.data IN
             /\ Len(New(x)) = 1
             /\ LET m == New(x)[1] IN
                /\ m.type = "signal"
                /\ m.from = attachment[s]
                /\ DOMAIN m = IF "payload" \in DOMAIN d THEN {"type", "from", "payload"}
                                                       ELSE {"type", "from"}
                /\ "payload" \in DOMAIN d => m.payload = d.payload
             /\ \A h \in Handles \ {x} : New(h) = <<>>
             /\ RoomUnchanged
      ]_vars

\* C5 witness: a signal with a made-up from key was relayed to another
\* participant while a third participant was in the room
C5_Witness ==
    /\ isObject(last)
    /\ tagOf(last.message.data) = "signal"
    /\ {"to", "from", "payload"} \subseteq DOMAIN last.message.data
    /\ last.message.data.from # attachment[last.ws]
    /\ \E x, b \in Members :
        /\ Cardinality({x, b, last.ws}) = 3
        /\ last.message.data.to = attachment[x]
        /\ Len(sent[x]) > 0
        /\ sent[x][Len(sent[x])].type = "signal"

\* C6: a frame that is a protocol error makes the room send nothing, leaves
\* the membership unchanged and closes no transport.
C6_ProtocolErrorsDropped ==
    [][(isFrame(last') /\ ProtocolError(last'.message)) => (sent' = sent /\ RoomUnchanged)]_vars

\* C7: a ready from a participant that was already sent a welcome makes the
\* room send nothing and leaves the membership unchanged; so no participant is
\* sent two welcomes, nor two peer-joined naming the same participant.
C7_DuplicateReadyDropped ==
    /\ [][\A ws \in Handles :
            ( /\ isObject(last') /\ last'.ws = ws
              /\ tagOf(last'.message.data) = "ready"
              /\ Welcomed(ws) )
            => (sent' = sent /\ RoomUnchanged)
        ]_vars
    /\ [](\A h, p \in Handles :
            /\ Cardinality({i \in 1..Len(sent[h]) : sent[h][i].type = "welcome"}) <= 1
            /\ transport[p] # "none" =>
                Times(h, [type |-> "peer-joined", peerId |-> attachment[p]]) <= 1)

\* C8: a signal with no destination, or whose destination is not a current
\* participant, makes the room send nothing to anyone and leaves the
\* membership and every transport unchanged.
C8_DeadLetterSafety ==
    [][(isObject(last') /\ DeadLetter(last'.message.data)) => (sent' = sent /\ RoomUnchanged)]_vars

\* C8 witness: a participant sent a signal to the identity of a participant
\* that had left, while another participant was in the room
C8_Witness ==
    /\ isObject(last)
    /\ tagOf(last.message.data) = "signal"
    /\ "to" \in DOMAIN last.message.data
    /\ \E p \in Handles :
        /\ transport[p] \in {"errored", "closed"}
        /\ last.message.data.to = attachment[p]
    /\ \E q \in Members : q # last.ws

\* C9: a close or error of P sends peer-left{peerId: P} to every other
\* participant in the room and nothing to P, and ends P's membership: after
\* it P is sent nothing, is in no welcome.peers and is named by no peer-joined.
C9_DepartureBroadcastAndRemoval ==
    [][/\ \A p \in Handles :
            (last'.op \in {"close", "error"} /\ last'.ws = p) =>
                /\ \A q \in Members \ {p} :
                    New(q) = <<[type |-> "peer-left", peerId |-> attachment[p]]>>
                /\ \A q \in Handles \ Members : New(q) = <<>>
                /\ New(p) = <<>>
                /\ p \notin Range(sockets')
                /\ transport'[p] # "open"
       /\ \A p \in Handles :
            transport[p] \in {"errored", "closed"} =>
                /\ New(p) = <<>>
                /\ p \notin Range(sockets')
                /\ transport'[p] # "open"
                /\ \A h \in Handles : \A i \in 1..Len(New(h)) :
                    /\ New(h)[i].type = "welcome" => attachment[p] \notin Range(New(h)[i].peers)
                    /\ New(h)[i].type = "peer-joined" => New(h)[i].peerId # attachment[p]
      ]_vars

\* C9 witness: Q was sent peer-left naming P when P closed, and became ready
\* afterwards
C9_Witness ==
    \E p, q \in Handles :
        /\ p # q
        /\ transport[p] = "closed"
        /\ transport[q] = "open"
        /\ Len(sent[q]) = 2
        /\ sent[q][1] = [type |-> "peer-left", peerId |-> attachment[p]]
        /\ sent[q][2].type = "welcome"

\* C10: the first ready of P sends P one welcome with P's identity and, as
\* peers, exactly the other participants whose transport is open at that
\* moment (ready or not), and sends peer-joined{peerId: P} to exactly those
\* participants, all in one step of the room.
C10_ReadyIsAtomic ==
    [][\A ws \in Handles :
          ( /\ isObject(last') /\ last'.ws = ws
            /\ tagOf(last'.message.data) = "ready"
            /\ ~Welcomed(ws) )
          => LET others == Members \ {ws} IN
             /\ Len(New(ws)) = 1
             /\ New(ws)[1].type = "welcome"
             /\ New(ws)[1].id = attachment[ws]
             /\ Range(New(ws)[1].peers) = {attachment[h] : h \in others}
             /\ Len(New(ws)[1].peers) = Cardinality(others)
             /\ attachment[ws] \notin Range(New(ws)[1].peers)
             /\ \A h \in Handles \ {ws} :
                 New(h) = IF h \in others
                          THEN <<[type |-> "peer-joined", peerId |-> attachment[ws]]>>
                          ELSE <<>>
             /\ RoomUnchanged
      ]_vars

\* C10 witness: a participant's first ready was answered with a welcome that
\* lists a participant that has not sent ready
C10_Witness ==
    /\ isObject(last)
    /\ tagOf(last.message.data) = "ready"
    /\ Len(sent[last.ws]) = 1
    /\ sent[last.ws][1].type = "welcome"
    /\ \E h \in Members \ {last.ws} :
        /\ attachment[h] \in Range(sent[last.ws][1].peers)
        /\ ~Welcomed(h)

\* the candidates flushCandidates has handed to connection c of engine e
flushed(e, c) == SelectSeq(heap[e][c].added, LAMBDA a : a.via = "flush")

\* C3: Candidate ordering.  In every session the candidates buffered before
\* the remote description was applied are handed to addIceCandidate by the
\* flush after a remote description has been applied, each at most once and
\* in the order they were received: what the flush has handed over so far is
\* always a prefix of what was buffered.
C3_CandidateOrdering ==
    \A e \in Handles : \A c \in 1..Len(heap[e]) :
        LET f == flushed(e, c) IN
        /\ f # <<>> => heap[e][c].remote # <<>>
        /\ Len(f) <= Len(heap[e][c].buffered)
        /\ \A k \in 1..Len(f) : f[k].candidate = heap[e][c].buffered[k]

\* engine e has sent an offer addressed to id
offered(e, id) ==
    \E i \in 1..Len(wire[e]) :
        LET d == wire[e][i].data IN
        /\ d.type = "signal"
        /\ d.to = id
        /\ "sdp" \in DOMAIN d.payload
        /\ d.payload.type = "offer"

\* the welcome sent to socket h lists id
listed(h, id) ==
    \E i \in 1..Len(sent[h]) :
        sent[h][i].type = "welcome" /\ id \in Range(sent[h][i].peers)

\* C1: Role determinism.  For every pair of participants A and B, if A's
\* welcome lists B then B never sends A an offer, and it never happens that A
\* and B have each sent the other an offer.
C1_RoleDeterminism ==
    \A a \in Handles : \A b \in Handles \ {a} :
        /\ listed(a, attachment[b]) => ~offered(b, attachment[a])
        /\ ~(offered(a, attachment[b]) /\ offered(b, attachment[a]))

\* C11: Sessions die with their peer.  Once an engine has handled peer-left
\* for identity P, its session map holds no session for P, in that state and
\* in every later one, whatever calls are suspended at an await.
C11_SessionsDieWithPeer ==
    \A e \in Handles : \A p \in gone[e] : peersRef[e][p] = 0

\* the first and the second participant, and their identities
A == 1
B == 2
idA == IdPool[A]
idB == IdPool[B]

\* the scenario: A's ready was handled while the room held nobody else, so
\* the first message A was sent is a welcome with an empty peers list, and
\* A stays; nobody but A and B has connected
Scenario ==
    /\ transport[A] = "open"
    /\ \A h \in Handles \ {A, B} : transport[h] = "none"
    /\ sent[A] # <<>>
    /\ sent[A][1] = [type |-> "welcome", id |-> idA, peers |-> <<>>]

\* the sessions an engine has created all have this peer and this role
sessionsAre(e, peerId, role) ==
    \A c \in 1..Len(heap[e]) : heap[e][c].peerId = peerId /\ heap[e][c].role = role

\* every signal socket h was sent names this sender
signalsFrom(h, id) ==
    \A i \in 1..Len(sent[h]) : sent[h][i].type = "signal" => sent[h][i].from = id

\* C12 as stated: in the scenario A is the offerer (A creates an offerer
\* session for B and sends the offer) and B the answerer.
C12_EndToEndAsStated ==
    Scenario =>
        /\ sessionsAre(A, idB, "offerer")
        /\ sessionsAre(B, idA, "answerer")
        /\ ~offered(B, idA)

\* C12, amended: in the scenario B is sent welcome{peers: [A]} and A is sent
\* peer-joined naming B; B, whose welcome lists A, creates the one offerer
\* session and sends the offer, which is relayed to A with from = B; A
\* creates the one answerer session, applies the offer and answers, the
\* answer is relayed to B with from = A and applied there as the only remote
\* description; when B has disconnected A is sent peer-left naming B last,
\* and once A has handled it A's map is empty and A's connection is closed.
C12_EndToEnd ==
    Scenario =>
        /\ sent[B] # <<>> =>
            /\ sent[B][1] = [type |-> "welcome", id |-> idB, peers |-> <<idA>>]
            /\ Len(sent[A]) >= 2
            /\ sent[A][2] = [type |-> "peer-joined", peerId |-> idB]
        /\ Len(heap[A]) <= 1 /\ Len(heap[B]) <= 1
        /\ sessionsAre(B, idA, "offerer")
        /\ sessionsAre(A, idB, "answerer")
        /\ ~offered(A, idB)
        /\ signalsFrom(A, idB) /\ signalsFrom(B, idA)
        /\ \A c \in 1..Len(heap[A]) : heap[A][c].remote \in {<<>>, <<"offer">>}
        /\ \A c \in 1..Len(heap[B]) : heap[B][c].remote \in {<<>>, <<"answer">>}
        /\ \A c \in 1..Len(heap[B]) : heap[B][c].remote # <<>> => heap[B][c].local = "offer"
        /\ transport[B] = "closed" =>
                sent[A][Len(sent[A])] = [type |-> "peer-left", peerId |-> idB]
        /\ idB \in gone[A] =>
            /\ peersRef[A][idB] = 0
            /\ \A c \in 1..Len(heap[A]) : heap[A][c].closes = 1

\* C12 witness: the whole scenario has run: both sides negotiated, B left,
\* A handled the peer-left and tore its session down
C12_Witness ==
    /\ Scenario
    /\ Len(heap[A]) = 1 /\ Len(heap[B]) = 1
    /\ heap[B][1].role = "offerer" /\ heap[B][1].local = "offer"
    /\ heap[B][1].remote = <<"answer">>
    /\ heap[A][1].role = "answerer" /\ heap[A][1].remote = <<"offer">>
    /\ heap[A][1].local = "answer"
    /\ transport[B] = "closed"
    /\ idB \in gone[A]
    /\ peersRef[A][idB] = 0
    /\ heap[A][1].closes = 1

\* the step handles a signal from a peer whose payload is a candidate
candidateHandled(e, u) ==
    /\ last'.op = "onmessage" /\ last'.e = e
    /\ last'.data.type = "signal"
    /\ last'.data.from = u
    /\ "payload" \in DOMAIN last'.data
    /\ "candidate" \in DOMAIN last'.data.payload

\* C13: No premature candidate.  No connection has been handed a candidate
\* (addIceCandidate) unless a remote description has been applied to that
\* same connection; a candidate that arrives for a session before that is
\* appended to the session's buffer and handed to nothing, and one that
\* arrives after is handed to addIceCandidate in the same step and not
\* buffered.
C13_NoPrematureCandidate ==
    /\ [](\A e \in Handles : \A c \in 1..Len(heap[e]) :
            heap[e][c].added # <<>> => heap[e][c].remote # <<>>)
    /\ [][\A e \in Handles : \A u \in Ids :
            (candidateHandled(e, u) /\ peersRef[e][u] # 0) =>
                LET c == peersRef[e][u]
                    candidate == last'.data.payload
                IN  IF heap[e][c].remote = <<>>
                    THEN /\ heap'[e][c].candidateBuffer =
                                Append(heap[e][c].candidateBuffer, candidate)
                         /\ heap'[e][c].added = heap[e][c].added
                    ELSE /\ heap'[e][c].added =
                                Append(heap[e][c].added,
                                       [candidate |-> candidate, via |-> "direct"])
                         /\ heap'[e][c].candidateBuffer = heap[e][c].candidateBuffer
       ]_vars

\* C13 witness: a session was sent one candidate before its remote
\* description was applied and one after: the first was buffered and handed
\* over by the flush, the second has just been handed over directly
C13_Witness ==
    /\ last.op = "onmessage"
    /\ last.data.type = "signal"
    /\ "payload" \in DOMAIN last.data
    /\ "candidate" \in DOMAIN last.data.payload
    /\ \E c \in 1..Len(heap[last.e]) :
        /\ peersRef[last.e][last.data.from] = c
        /\ Len(heap[last.e][c].buffered) = 1
        /\ Len(heap[last.e][c].added) = 2
        /\ heap[last.e][c].added[1] = [candidate |-> heap[last.e][c].buffered[1], via |-> "flush"]
        /\ heap[last.e][c].added[2] = [candidate |-> last.data.payload, via |-> "direct"]

\* the connections engine e created for peer u and has not closed
liveSessions(e, u) ==
    {c \in 1..Len(heap[e]) : heap[e][c].peerId = u /\ heap[e][c].closes = 0}

\* C14: Session uniqueness.  An engine has at most one live (created and not
\* closed) connection per peer identity, and every connection that is not
\* the one its session map holds for that peer has been closed.
C14_SessionUniqueness ==
    \A e \in Handles :
        /\ \A u \in Ids : Cardinality(liveSessions(e, u)) <= 1
        /\ \A c \in 1..Len(heap[e]) :
                peersRef[e][heap[e][c].peerId] # c => heap[e][c].closes >= 1

\* the step handles a signal from peer u whose payload is an answer
answerHandled(e, u) ==
    /\ last'.op = "onmessage" /\ last'.e = e
    /\ last'.data.type = "signal"
    /\ last'.data.from = u
    /\ "payload" \in DOMAIN last'.data
    /\ "sdp" \in DOMAIN last'.data.payload
    /\ last'.data.payload.type = "answer"

\* setRemoteDescription(answer) has been called on connection c of engine e,
\* completed or pending
answered(e, c) ==
    \/ \E k \in 1..Len(heap[e][c].remote) : heap[e][c].remote[k] = "answer"
    \/ \E k \in 1..Len(tasks[e]) : tasks[e][k].c = c /\ tasks[e][k].at = "setRemoteAnswer"

\* engine e has an offerer session for u that no answer has been given to
matchingOfferer(e, u) ==
    /\ peersRef[e][u] # 0
    /\ heap[e][peersRef[e][u]].role = "offerer"
    /\ ~answered(e, peersRef[e][u])

\* C15: An answer is applied only to a matching offerer session.  An answer
\* from a peer for which the engine has no session, an answerer session or a
\* session that was already given an answer is dropped: the step leaves the
\* sessions, the map and the pending calls as they were; so no answerer
\* session ever has an answer applied and no session has two.
C15_AnswerOnlyToOfferer ==
    /\ [][\A e \in Handles : \A u \in Ids :
            (answerHandled(e, u) /\ ~matchingOfferer(e, u)) =>
                /\ heap'[e] = heap[e]
                /\ peersRef'[e] = peersRef[e]
                /\ tasks'[e] = tasks[e]
       ]_vars
    /\ [](\A e \in Handles : \A c \in 1..Len(heap[e]) :
            LET answers == {k \in 1..Len(heap[e][c].remote) : heap[e][c].remote[k] = "answer"}
            IN  /\ heap[e][c].role = "answerer" => answers = {}
                /\ Cardinality(answers) <= 1)

\* socket h was sent peer-joined naming id
joinedNamed(h, id) ==
    \E i \in 1..Len(sent[h]) : sent[h][i] = [type |-> "peer-joined", peerId |-> id]

\* C16: Single initiator per pair at the registry.  Of two participants that
\* are both ready and both present exactly one has the other in its
\* welcome.peers, and a participant that was sent peer-joined naming Q does
\* not have Q in its own welcome.peers.
C16_SingleInitiator ==
    \A p \in Members : \A q \in Members \ {p} :
        /\ (Welcomed(p) /\ Welcomed(q)) =>
                (listed(p, attachment[q]) # listed(q, attachment[p]))
        /\ joinedNamed(p, attachment[q]) => ~listed(p, attachment[q])

\* engine e has created an offerer session for peer u
offererCreated(e, u) ==
    \E c \in 1..Len(heap[e]) : heap[e][c].peerId = u /\ heap[e][c].role = "offerer"

\* C17: Sessions are independent.  Whatever happened to the sessions of the
\* other listed peers, once no call of the engine is suspended any more the
\* engine has created an offerer session for every peer of its welcome that
\* has not left.
C17_SessionsIndependent ==
    \A e \in Handles :
        tasks[e] = <<>> =>
            \A u \in Range(roster[e]) \ gone[e] : offererCreated(e, u)

\* the step of engine e calls removePeer(u): it handles peer-left naming u,
\* or a connection created for u reports 'disconnected' or 'failed'
removePeerCalled(e, u) ==
    /\ last'.e = e
    /\ \/ last'.op = "onmessage" /\ last'.data.type = "peer-left" /\ last'.data.peerId = u
       \/ last'.op = "onconnectionstatechange" /\ heap[e][last'.c].peerId = u

creatingStep(e) ==
    /\ last'.e = e
    /\ \/ last'.op = "onmessage" /\ last'.data.type = "welcome"
       \/ /\ last'.op = "onmessage" /\ last'.data.type = "signal"
          /\ "payload" \in DOMAIN last'.data
          /\ "sdp" \in DOMAIN last'.data.payload
          /\ last'.data.payload.type = "offer"
       \/ last'.op = "resume" /\ last'.at = "setLocalOffer"

\* the step gives engine e a connection or a map entry it did not have
sessionAdded(e) ==
    \/ Len(heap'[e]) > Len(heap[e])
    \/ \E u \in Ids : peersRef'[e][u] \notin {0, peersRef[e][u]}

\* C19: Sessions are created only by the role rule.  A step adds a
\* connection or a map entry only when it handles a welcome (at most one
\* offerer session per peer, each for a listed peer) or an offer; handling
\* peer-joined, an answer, a candidate or peer-left never does, and a
\* candidate from a peer with no session changes no session, no map entry
\* and no buffer, and starts nothing.
C19_CreatedOnlyByRoleRule ==
    /\ [][\A e \in Handles :
            /\ sessionAdded(e) => creatingStep(e)
            /\ \A u \in Ids :
                (candidateHandled(e, u) /\ peersRef[e][u] = 0) =>
                    heap'[e] = heap[e] /\ peersRef'[e] = peersRef[e] /\ tasks'[e] = tasks[e]
       ]_vars
    /\ [](\A e \in Handles : \A c \in 1..Len(heap[e]) :
            heap[e][c].role = "offerer" =>
                /\ heap[e][c].peerId \in Range(roster[e])
                /\ \A d \in 1..Len(heap[e]) :
                        (heap[e][d].role = "offerer" /\ heap[e][d].peerId = heap[e][c].peerId)
                            => d = c)

\* C19 witness: while the engine has a session for one peer, a candidate
\* from another peer, for which it has never had a session, has just been
\* handled
C19_Witness ==
    /\ last.op = "onmessage"
    /\ last.data.type = "signal"
    /\ "payload" \in DOMAIN last.data
    /\ "candidate" \in DOMAIN last.data.payload
    /\ peersRef[last.e][last.data.from] = 0
    /\ \A c \in 1..Len(heap[last.e]) : heap[last.e][c].peerId # last.data.from
    /\ \E u \in Ids : peersRef[last.e][u] # 0

\* engine e holds exactly one live session for peer u, the one in its map,
\* with its local description set and a remote description applied
negotiated(e, u) ==
    /\ Cardinality(liveSessions(e, u)) = 1
    /\ peersRef[e][u] \in liveSessions(e, u)
    /\ heap[e][peersRef[e][u]].local # ""
    /\ heap[e][peersRef[e][u]].remote # <<>>

\* C20: Negotiation completes for a stable pair.  When two participants
\* connect and send ready, neither leaves, and every frame, message and
\* awaited operation is eventually delivered or completed, then for every
\* order of their connects and readys each engine eventually holds exactly
\* one session for the other, with its local description set and its remote
\* description applied, and stays so.
C20_NegotiationCompletes ==
    <>[](negotiated(A, idB) /\ negotiated(B, idA))
====
